---- MODULE Spec2Model ----
(***************************************************************************)
(* midi-parquet: main.py walks a directory for tar.gz / zip archives,       *)
(* extracts the MIDI members of each archive in a process pool, merges the  *)
(* per-archive record lists into one table, reports size statistics and     *)
(* writes the table as a parquet dataset partitioned by group.              *)
(*                                                                          *)
(* Strings (paths, member names) are sequences of one-character strings so  *)
(* that lower(), endswith(), replace(), basename() and Path.stem are        *)
(* computed character by character, as Python computes them.                *)
(***************************************************************************)
EXTENDS Integers, Sequences, FiniteSets, TLC

----------------------------------------------------------------------------
(* Bounds of the model *)

\* members per archive in the pipeline specification
MaxMembers == 1
\* members per archive in the extraction-worker specification
MaxEntries == 2
\* name atoms per archive file name in the group specification
MaxAtoms == 5
\* largest -j value / cpu count
MaxWorkers == 2
\* how far around each size boundary get_size_category is exercised
SizeSpread == 12

\* Python's None, and a value that is there: an absent value is the empty
\* sequence, a present one the sequence holding it
None == << >>
Some(v) == << v >>
Get(o) == o[1]

----------------------------------------------------------------------------
(* Python str operations *)

UpperCase ==
    << "A", "B", "C", "D", "E", "F", "G", "H", "I", "J", "K", "L", "M",
       "N", "O", "P", "Q", "R", "S", "T", "U", "V", "W", "X", "Y", "Z" >>

LowerCase ==
    << "a", "b", "c", "d", "e", "f", "g", "h", "i", "j", "k", "l", "m",
       "n", "o", "p", "q", "r", "s", "t", "u", "v", "w", "x", "y", "z" >>

\* str.lower() on one character
lower_char(c) ==
    IF \E i \in DOMAIN UpperCase : UpperCase[i] = c
    THEN LowerCase[CHOOSE i \in DOMAIN UpperCase : UpperCase[i] = c]
    ELSE c

\* str.lower()
lower(s) == [i \in 1..Len(s) |-> lower_char(s[i])]

\* str.endswith(suffix)
endswith(s, suffix) ==
    /\ Len(s) >= Len(suffix)
    /\ SubSeq(s, Len(s) - Len(suffix) + 1, Len(s)) = suffix

\* str.rfind(c) + 1: the 1-based position of the last c, 0 when there is none
rfind(s, c) ==
    IF \E i \in 1..Len(s) : s[i] = c
    THEN CHOOSE i \in 1..Len(s) : s[i] = c /\ \A j \in (i+1)..Len(s) : s[j] # c
    ELSE 0

\* str.replace(old, ''): every non-overlapping occurrence, left to right
RECURSIVE replace(_, _)
replace(s, old) ==
    IF Len(s) < Len(old) THEN s
    ELSE IF SubSeq(s, 1, Len(old)) = old
         THEN replace(SubSeq(s, Len(old) + 1, Len(s)), old)
         ELSE <<Head(s)>> \o replace(Tail(s), old)

\* os.path.basename(p): what follows the last '/'
basename(p) == SubSeq(p, rfind(p, "/") + 1, Len(p))

\* pathlib: Path.name, the final path component
PathName(p) == SubSeq(p, rfind(p, "/") + 1, Len(p))

\* pathlib: Path.suffix, from the last '.' of the name unless that dot is the
\* first or the last character
PathSuffix(p) ==
    LET name == PathName(p)
        i    == rfind(name, ".")
    IN  IF 1 < i /\ i < Len(name) THEN SubSeq(name, i, Len(name)) ELSE <<>>

\* pathlib: Path.stem, the name without its suffix
PathStem(p) ==
    LET name == PathName(p)
        i    == rfind(name, ".")
    IN  IF 1 < i /\ i < Len(name) THEN SubSeq(name, 1, i - 1) ELSE name

DOT_MID  == << ".", "m", "i", "d" >>
DOT_MIDI == << ".", "m", "i", "d", "i" >>
DOT_TAR  == << ".", "t", "a", "r" >>
DOT_GZ   == << ".", "g", "z" >>
DOT_ZIP  == << ".", "z", "i", "p" >>
DOT_TAR_GZ == DOT_TAR \o DOT_GZ

----------------------------------------------------------------------------
(* Size categories *)

KB == 1024

LT_1KB      == "< 1KB"
KB_1_10     == "1KB - 10KB"
KB_10_100   == "10KB - 100KB"
KB_100_1MB  == "100KB - 1MB"
GT_1MB      == "> 1MB"

get_size_category_off_by_one(size_bytes) ==
    IF size_bytes <= KB THEN LT_1KB
    ELSE IF size_bytes <= 10 * KB THEN KB_1_10
    ELSE IF size_bytes <= 100 * KB THEN KB_10_100
    ELSE IF size_bytes <= KB * KB THEN KB_100_1MB
    ELSE GT_1MB

get_size_category(size_bytes) ==
    IF size_bytes < KB THEN LT_1KB
    ELSE IF size_bytes < 10 * KB THEN KB_1_10
    ELSE IF size_bytes < 100 * KB THEN KB_10_100
    ELSE IF size_bytes < KB * KB THEN KB_100_1MB
    ELSE GT_1MB

----------------------------------------------------------------------------
(* State *)

VARIABLES
    input_dir,      \* what args.input_dir resolves to: "missing", "file", "dir"
    tree,           \* the files below input_dir, in directory-walk order
    args,           \* the parsed command line: [jobs, no_plot]
    pc,             \* position of main()
    archives,       \* find_archives' result
    max_workers,    \* pool size of the ProcessPoolExecutor
    futures,        \* one future per submitted archive, in submission order
    collected,      \* indices of the futures as_completed has yielded
    data,           \* process_archives' list of row dicts
    df,             \* the DataFrame process_archives returned
    group_counts,   \* main's per-group statistics
    size_stats,     \* plot_size_distribution's histogram
    summary,        \* plot_size_distribution's scalars
    artifact,       \* the parquet dataset on disk, by partition
    exit_code,      \* exit status of the run
    uncaught,       \* the exception that ended main, if any
    fn_input,       \* argument of a function exercised on its own
    fn_output       \* its return value

vars == << input_dir, tree, args, pc, archives, max_workers, futures,
           collected, data, df, group_counts, size_stats, summary, artifact,
           exit_code, uncaught, fn_input, fn_output >>

pipelineVars == << input_dir, tree, args, pc, archives, max_workers, futures,
                   collected, data, df, group_counts, size_stats, summary,
                   artifact, exit_code, uncaught >>

----------------------------------------------------------------------------
(* Archives and their members *)

\* Opaque byte strings, known by identity and length
Contents == { [blob |-> "X", len |-> 50], [blob |-> "Y", len |-> 2050] }

NoContent == [blob |-> "", len |-> 0]

\* len(content)
len(content) == content.len

S_MID    == << "s", ".", "m", "i", "d" >>
D_T_MIDI == << "d", "/", "T", ".", "M", "I", "D", "I" >>
X_TXT    == << "x", ".", "t", "x", "t" >>
D_SLASH  == << "d", "/" >>

MemberNames == { S_MID, D_T_MIDI, X_TXT }

\* A member of a tar archive: regular file, directory or link. Reading a
\* regular file either yields its content or raises.
TarMemberPool ==
    { [name |-> n, type |-> "file", readable |-> TRUE, content |-> c] :
          n \in MemberNames, c \in Contents }
    \cup { [name |-> n, type |-> t, readable |-> FALSE, content |-> NoContent] :
          n \in MemberNames, t \in {"file", "dir", "link"} }

\* A member of a zip archive: a directory is an entry whose name ends in '/'
ZipMemberPool ==
    { [name |-> n, type |-> "file", readable |-> TRUE, content |-> c] :
          n \in MemberNames, c \in Contents }
    \cup { [name |-> n, type |-> "file", readable |-> FALSE, content |-> NoContent] :
          n \in MemberNames }
    \cup { [name |-> D_SLASH, type |-> "dir", readable |-> FALSE, content |-> NoContent] }

\* Sequences over pool of length at most n
SeqsUpTo(pool, n) == UNION { [1..k -> pool] : k \in 0..n }

\* the comparison without lower()
is_midi_name_case_sensitive(file_name) ==
    \E ext \in { DOT_MID, DOT_MIDI } : endswith(file_name, ext)

\* any(file_name.lower().endswith(ext) for ext in ['.mid', '.midi'])
is_midi_name(file_name) ==
    \E ext \in { DOT_MID, DOT_MIDI } : endswith(lower(file_name), ext)

\* TarInfo.isfile()
isfile(member) == member.type = "file"

\* ZipInfo.is_dir()
is_dir(file_info) == endswith(file_info.name, << "/" >>)

\* The result tuple appended for one member that has been read
ResultTuple(group, file_name, content) ==
    << group, basename(file_name), content, len(content) >>

\* for member in tar.getmembers(): ...
RECURSIVE tar_loop(_, _)
tar_loop(group, members) ==
    IF members = << >> THEN << >>
    ELSE LET member    == Head(members)
             file_name == member.name
         IN  (IF isfile(member) /\ is_midi_name(file_name) /\ member.readable
              THEN << ResultTuple(group, file_name, member.content) >>
              ELSE << >>)
             \o tar_loop(group, Tail(members))

\* the loop with the try around it instead of around one read
RECURSIVE tar_loop_abort(_, _)
tar_loop_abort(group, members) ==
    IF members = << >> THEN << >>
    ELSE LET member    == Head(members)
             file_name == member.name
         IN  IF isfile(member) /\ is_midi_name(file_name)
             THEN IF member.readable
                  THEN << ResultTuple(group, file_name, member.content) >>
                       \o tar_loop_abort(group, Tail(members))
                  ELSE << >>
             ELSE tar_loop_abort(group, Tail(members))

extract_midi_from_tar_abort(tar_path, body) ==
    LET group == replace(PathStem(tar_path), DOT_TAR)
    IN  IF body.openable THEN tar_loop_abort(group, body.members) ELSE << >>

extract_midi_from_tar(tar_path, body) ==
    LET group == replace(PathStem(tar_path), DOT_TAR)
    IN  IF body.openable THEN tar_loop(group, body.members) ELSE << >>

\* for file_info in zip_file.infolist(): ...
RECURSIVE zip_loop(_, _)
zip_loop(group, members) ==
    IF members = << >> THEN << >>
    ELSE LET file_info == Head(members)
             file_name == file_info.name
         IN  (IF ~is_dir(file_info) /\ is_midi_name(file_name) /\ file_info.readable
              THEN << ResultTuple(group, file_name, file_info.content) >>
              ELSE << >>)
             \o zip_loop(group, Tail(members))

extract_midi_from_zip(zip_path, body) ==
    LET group == PathStem(zip_path)
    IN  IF body.openable THEN zip_loop(group, body.members) ELSE << >>

process_single_archive(archive) ==
    IF lower(PathSuffix(archive.path)) = DOT_ZIP
    THEN extract_midi_from_zip(archive.path, archive.body)
    ELSE IF endswith(lower(PathName(archive.path)), DOT_TAR_GZ)
         THEN extract_midi_from_tar(archive.path, archive.body)
         ELSE << >>

----------------------------------------------------------------------------
(* Archive discovery *)

\* glob skips names that start with '.', at every level of the walk
Hidden(path) ==
    \E i \in 1..Len(path) : path[i] = "." /\ (i = 1 \/ path[i-1] = "/")

\* glob.glob(os.path.join(directory, "**/*<suffix>"), recursive=True)
glob(nodes, suffix) ==
    SelectSeq(nodes, LAMBDA f : ~Hidden(f.path) /\ endswith(PathName(f.path), suffix))

\* a third pattern, "**/*.gz", that overlaps the first
find_archives_overlapping(nodes) ==
    glob(nodes, DOT_TAR_GZ) \o glob(nodes, DOT_GZ) \o glob(nodes, DOT_ZIP)

find_archives(nodes) == glob(nodes, DOT_TAR_GZ) \o glob(nodes, DOT_ZIP)

----------------------------------------------------------------------------
(* Functions exercised on their own *)

\* The pipeline has not started and does not move
PipelineIdle ==
    /\ input_dir = "dir"
    /\ tree = << >>
    /\ args = [jobs |-> None, no_plot |-> FALSE]
    /\ pc = "idle"
    /\ archives = << >>
    /\ max_workers = 0
    /\ futures = << >>
    /\ collected = {}
    /\ data = << >>
    /\ df = None
    /\ group_counts = None
    /\ size_stats = None
    /\ summary = None
    /\ artifact = None
    /\ exit_code = None
    /\ uncaught = "none"

\* Sizes on both sides of every boundary of get_size_category
SizeBoundaries == { KB, 10 * KB, 100 * KB, KB * KB }

SizeInputs ==
    (0..SizeSpread)
    \cup UNION { (b - SizeSpread)..(b + SizeSpread) : b \in SizeBoundaries }

InitSize ==
    /\ PipelineIdle
    /\ fn_input \in SizeInputs
    /\ fn_output = None

CallGetSizeCategory ==
    /\ fn_output = None
    /\ fn_output' = Some(get_size_category(fn_input))
    /\ UNCHANGED << fn_input, pipelineVars >>

SpecSize == InitSize /\ [][CallGetSizeCategory]_vars

\* Archive file names built from the pieces that matter to find_archives,
\* process_single_archive and the group derivation
NameAtoms ==
    { << "a" >>, << "." >>, << "s", "/" >>, DOT_TAR, DOT_GZ, DOT_ZIP }

RECURSIVE Flatten(_)
Flatten(ss) == IF ss = << >> THEN << >> ELSE Head(ss) \o Flatten(Tail(ss))

ArchiveNames == { Flatten(ss) : ss \in SeqsUpTo(NameAtoms, MaxAtoms) }

OneMidi == [name |-> S_MID, type |-> "file", readable |-> TRUE,
            content |-> [blob |-> "X", len |-> 50]]

\* Every archive discovery can return, holding one MIDI file
GroupInputs ==
    { f \in { [path |-> n,
               body |-> [openable |-> TRUE, crash |-> FALSE, members |-> << OneMidi >>]] :
               n \in ArchiveNames } :
        find_archives(<< f >>) # << >> }

InitGroup ==
    /\ PipelineIdle
    /\ fn_input \in GroupInputs
    /\ fn_output = None

\* Archives of both formats with every body up to MaxEntries members
A_TAR_GZ == << "a", ".", "t", "a", "r", ".", "g", "z" >>
S_A_ZIP  == << "s", "/", "a", ".", "z", "i", "p" >>
C_ZIP    == << "c", ".", "z", "i", "p" >>

Bodies(pool, n) ==
    { [openable |-> TRUE, crash |-> FALSE, members |-> m] : m \in SeqsUpTo(pool, n) }
    \cup { [openable |-> FALSE, crash |-> FALSE, members |-> << >>] }

ExtractInputs ==
    { [path |-> A_TAR_GZ, body |-> b] : b \in Bodies(TarMemberPool, MaxEntries) }
    \cup { [path |-> S_A_ZIP, body |-> b] : b \in Bodies(ZipMemberPool, MaxEntries) }

InitExtract ==
    /\ PipelineIdle
    /\ fn_input \in ExtractInputs
    /\ fn_output = None

CallProcessSingleArchive ==
    /\ fn_output = None
    /\ fn_output' = Some(process_single_archive(fn_input))
    /\ UNCHANGED << fn_input, pipelineVars >>

SpecGroup == InitGroup /\ [][CallProcessSingleArchive]_vars

SpecExtract == InitExtract /\ [][CallProcessSingleArchive]_vars

----------------------------------------------------------------------------
(* The table and its statistics *)

\* data.append({'group': ..., 'file_name': ..., 'content': ..., 'file_size': ...})
Row(t) == [group |-> t[1], file_name |-> t[2], content |-> t[3], file_size |-> t[4]]

Rows(results) == [i \in 1..Len(results) |-> Row(results[i])]

\* results replace the rows collected so far instead of extending them
collect_overwrite(rows, outcome) ==
    IF outcome.ok THEN Rows(outcome.results) ELSE rows

\* an exception of one task ends the collection with nothing
collect_abort(rows, outcome) ==
    IF outcome.ok THEN rows \o Rows(outcome.results) ELSE << >>

\* the body of the as_completed loop: future.result() either returns the
\* task's tuples, which are appended, or raises, which is printed
collect(rows, outcome) ==
    IF outcome.ok THEN rows \o Rows(outcome.results) ELSE rows

\* what a finished task leaves in its future
task_outcome(archive) ==
    IF archive.body.crash
    THEN [ok |-> FALSE, results |-> << >>]
    ELSE [ok |-> TRUE, results |-> process_single_archive(archive)]

\* df.group_by('group').agg([pl.len(), pl.col('file_size').sum()])
RECURSIVE group_by_group(_)
group_by_group(rows) ==
    IF rows = << >> THEN << >>
    ELSE LET n    == Len(rows)
             acc  == group_by_group(SubSeq(rows, 1, n - 1))
             r    == rows[n]
         IN  IF r.group \in DOMAIN acc
             THEN [acc EXCEPT ![r.group] =
                      [count |-> @.count + 1, total_size |-> @.total_size + r.file_size]]
             ELSE acc @@ (r.group :> [count |-> 1, total_size |-> r.file_size])

\* df.with_columns(size_category).group_by('size_category').agg(pl.len())
RECURSIVE group_by_size_category(_)
group_by_size_category(rows) ==
    IF rows = << >> THEN << >>
    ELSE LET n   == Len(rows)
             acc == group_by_size_category(SubSeq(rows, 1, n - 1))
             c   == get_size_category(rows[n].file_size)
         IN  IF c \in DOMAIN acc
             THEN [acc EXCEPT ![c] = @ + 1]
             ELSE acc @@ (c :> 1)

RECURSIVE sum_file_size(_)
sum_file_size(rows) ==
    IF rows = << >> THEN 0 ELSE Head(rows).file_size + sum_file_size(Tail(rows))

\* the scalars plot_size_distribution prints
describe(rows) ==
    [ total_files |-> Len(rows),
      total_size  |-> sum_file_size(rows),
      avg_size    |-> sum_file_size(rows) \div Len(rows),
      max         |-> CHOOSE m \in { rows[i].file_size : i \in DOMAIN rows } :
                          \A i \in DOMAIN rows : rows[i].file_size <= m,
      min         |-> CHOOSE m \in { rows[i].file_size : i \in DOMAIN rows } :
                          \A i \in DOMAIN rows : rows[i].file_size >= m ]

\* write_parquet(..., partition_by='group'): one partition per group
partition_by_group(rows) ==
    [ g \in { rows[i].group : i \in DOMAIN rows } |->
        SelectSeq(rows, LAMBDA r : r.group = g) ]

----------------------------------------------------------------------------
(* main() *)

N_TXT == << "n", ".", "t", "x", "t" >>
H_ZIP == << ".", "h", ".", "z", "i", "p" >>

\* The files a directory may hold, in the order the walk meets them
Catalog == << A_TAR_GZ, S_A_ZIP, C_ZIP, N_TXT, H_ZIP >>

\* The members the archive at a catalog path may hold: between them a MIDI
\* with an upper-case name, a MIDI-named directory, a MIDI that cannot be
\* read, and a regular file that is no MIDI
PipelinePool(path) ==
    IF path = A_TAR_GZ
    THEN { [name |-> D_T_MIDI, type |-> "file", readable |-> TRUE,
            content |-> [blob |-> "Y", len |-> 2050]],
           [name |-> S_MID, type |-> "dir", readable |-> FALSE, content |-> NoContent] }
    ELSE IF path = S_A_ZIP
    THEN { [name |-> S_MID, type |-> "file", readable |-> TRUE,
            content |-> [blob |-> "X", len |-> 50]],
           [name |-> D_T_MIDI, type |-> "file", readable |-> FALSE, content |-> NoContent] }
    ELSE { [name |-> S_MID, type |-> "file", readable |-> TRUE,
            content |-> [blob |-> "Y", len |-> 2050]],
           [name |-> X_TXT, type |-> "file", readable |-> TRUE,
            content |-> [blob |-> "X", len |-> 50]] }

\* a task whose failure is not handled inside the worker
CrashBody == [openable |-> TRUE, crash |-> TRUE, members |-> << >>]

\* What may be at a catalog path: nothing, or a file with some body.  The text
\* file and the hidden zip are always there.
NodeChoices(path) ==
    IF path \in { N_TXT, H_ZIP }
    THEN { Some([path |-> path,
                 body |-> [openable |-> TRUE, crash |-> FALSE,
                           members |-> << OneMidi >>]]) }
    ELSE { None }
         \cup { Some([path |-> path, body |-> b]) :
                  b \in Bodies(PipelinePool(path), MaxMembers) \cup { CrashBody } }

RECURSIVE TreesFrom(_)
TreesFrom(i) ==
    IF i > Len(Catalog) THEN { << >> }
    ELSE { n \o t :
             n \in NodeChoices(Catalog[i]), t \in TreesFrom(i + 1) }

Jobs == { None } \cup { Some(n) : n \in 0..MaxWorkers }

\* mp.cpu_count()
cpu_count == MaxWorkers

Min(a, b) == IF a < b THEN a ELSE b

Init ==
    /\ input_dir \in { "missing", "file", "dir" }
    /\ tree \in (IF input_dir = "dir" THEN TreesFrom(1) ELSE { << >> })
    /\ args \in [jobs : Jobs, no_plot : BOOLEAN]
    /\ pc = "main"
    /\ archives = << >>
    /\ max_workers = 0
    /\ futures = << >>
    /\ collected = {}
    /\ data = << >>
    /\ df = None
    /\ group_counts = None
    /\ size_stats = None
    /\ summary = None
    /\ artifact = None
    /\ exit_code = None
    /\ uncaught = "none"
    /\ fn_input = None
    /\ fn_output = None

\* if not input_dir.exists(): return 1 / if not input_dir.is_dir(): return 1
input_dir_error(d) == d = "missing" \/ d = "file"

\* if not archives: return 1
no_archives(found) == found = << >>

\* the empty-table test left out
no_midi_never(table) == FALSE

\* if df.height == 0: return 1
no_midi(table) == Len(table) = 0

\* the flag ignored
wants_plot_always(a) == TRUE

\* if not args.no_plot: plot_size_distribution(df)
wants_plot(a) == ~a.no_plot

Return(code) ==
    /\ exit_code' = Some(code)
    /\ pc' = "done"

\* main up to the call of process_archives
MainFindArchives ==
    /\ pc = "main"
    /\ LET found == IF input_dir = "dir" THEN find_archives(tree) ELSE << >>
       IN  IF input_dir_error(input_dir)
           THEN Return(1) /\ UNCHANGED archives
           ELSE /\ archives' = found
                /\ IF no_archives(found)
                   THEN Return(1)
                   ELSE pc' = "process_archives" /\ UNCHANGED exit_code
    /\ UNCHANGED << input_dir, tree, args, max_workers, futures, collected, data,
                    df, group_counts, size_stats, summary, artifact, uncaught,
                    fn_input, fn_output >>

\* process_archives up to the creation of the pool; ProcessPoolExecutor
\* raises ValueError for max_workers <= 0, which nothing catches
CreatePool ==
    /\ pc = "process_archives"
    /\ LET n == IF args.jobs = None THEN Min(cpu_count, Len(archives)) ELSE Get(args.jobs)
       IN  /\ max_workers' = n
           /\ IF n <= 0
              THEN /\ uncaught' = "ValueError"
                   /\ Return(1)
              ELSE /\ pc' = "submit"
                   /\ UNCHANGED << uncaught, exit_code >>
    /\ UNCHANGED << input_dir, tree, args, archives, futures, collected, data, df,
                    group_counts, size_stats, summary, artifact, fn_input, fn_output >>

\* executor.submit(process_single_archive, archive), one archive after the other
Submit ==
    /\ pc = "submit"
    /\ futures' = Append(futures, [state |-> "pending", outcome |-> None])
    /\ pc' = IF Len(futures') = Len(archives) THEN "as_completed" ELSE "submit"
    /\ UNCHANGED << input_dir, tree, args, archives, max_workers, collected, data,
                    df, group_counts, size_stats, summary, artifact, exit_code,
                    uncaught, fn_input, fn_output >>

Running == { i \in DOMAIN futures : futures[i].state = "running" }

\* a free worker process takes the oldest pending task
WorkerStart(i) ==
    /\ futures[i].state = "pending"
    /\ \A j \in 1..(i - 1) : futures[j].state # "pending"
    /\ Cardinality(Running) < max_workers
    /\ futures' = [futures EXCEPT ![i].state = "running"]
    /\ UNCHANGED << input_dir, tree, args, pc, archives, max_workers, collected,
                    data, df, group_counts, size_stats, summary, artifact,
                    exit_code, uncaught, fn_input, fn_output >>

\* the worker process finishes its task
WorkerFinish(i) ==
    /\ futures[i].state = "running"
    /\ futures' = [futures EXCEPT ![i] =
                      [state |-> "finished", outcome |-> Some(task_outcome(archives[i]))]]
    /\ UNCHANGED << input_dir, tree, args, pc, archives, max_workers, collected,
                    data, df, group_counts, size_stats, summary, artifact,
                    exit_code, uncaught, fn_input, fn_output >>

\* one turn of the as_completed loop: any finished future not yet yielded
Collect(i) ==
    /\ pc = "as_completed"
    /\ i \notin collected
    /\ futures[i].state = "finished"
    /\ collected' = collected \cup { i }
    /\ data' = collect(data, Get(futures[i].outcome))
    /\ UNCHANGED << input_dir, tree, args, pc, archives, max_workers, futures, df,
                    group_counts, size_stats, summary, artifact, exit_code,
                    uncaught, fn_input, fn_output >>

\* as_completed is exhausted, the pool shuts down, the DataFrame is returned
ProcessArchivesReturn ==
    /\ pc = "as_completed"
    /\ collected = DOMAIN futures
    /\ df' = Some(data)
    /\ pc' = "group_counts"
    /\ UNCHANGED << input_dir, tree, args, archives, max_workers, futures,
                    collected, data, group_counts, size_stats, summary, artifact,
                    exit_code, uncaught, fn_input, fn_output >>

\* main after process_archives: the empty check and the group statistics
MainGroupCounts ==
    /\ pc = "group_counts"
    /\ IF no_midi(Get(df))
       THEN Return(1) /\ UNCHANGED group_counts
       ELSE /\ group_counts' = Some(group_by_group(Get(df)))
            /\ pc' = "plot"
            /\ UNCHANGED exit_code
    /\ UNCHANGED << input_dir, tree, args, archives, max_workers, futures,
                    collected, data, df, size_stats, summary, artifact, uncaught,
                    fn_input, fn_output >>

\* plot_size_distribution, which returns early on an empty histogram
MainPlot ==
    /\ pc = "plot"
    /\ IF wants_plot(args)
       THEN /\ size_stats' = Some(group_by_size_category(Get(df)))
            /\ summary' = IF Len(Get(df)) = 0 THEN summary ELSE Some(describe(Get(df)))
       ELSE UNCHANGED << size_stats, summary >>
    /\ pc' = "save"
    /\ UNCHANGED << input_dir, tree, args, archives, max_workers, futures,
                    collected, data, df, group_counts, artifact, exit_code,
                    uncaught, fn_input, fn_output >>

\* save_to_parquet and the return of main; a failing write is not caught
MainSave ==
    /\ pc = "save"
    /\ IF Len(Get(df)) = 0
       THEN Return(0) /\ UNCHANGED << artifact, uncaught >>
       ELSE \E written \in BOOLEAN :
              IF written
              THEN /\ artifact' = Some(partition_by_group(Get(df)))
                   /\ Return(0)
                   /\ UNCHANGED uncaught
              ELSE /\ uncaught' = "WriteError"
                   /\ Return(1)
                   /\ UNCHANGED artifact
    /\ UNCHANGED << input_dir, tree, args, archives, max_workers, futures,
                    collected, data, df, group_counts, size_stats, summary,
                    fn_input, fn_output >>

Next ==
    \/ MainFindArchives
    \/ CreatePool
    \/ Submit
    \/ \E i \in DOMAIN futures : WorkerStart(i)
    \/ \E i \in DOMAIN futures : WorkerFinish(i)
    \/ \E i \in DOMAIN futures : Collect(i)
    \/ ProcessArchivesReturn
    \/ MainGroupCounts
    \/ MainPlot
    \/ MainSave

Spec == Init /\ [][Next]_vars

----------------------------------------------------------------------------
(* C6: get_size_category is left-inclusive at every boundary: below 1024 the
   first category, from 1024 to below 10240 the second, from 10240 to below
   102400 the third, from 102400 to below 1048576 the fourth, from 1048576 on
   the last.  The categories carry the labels the source gives them. *)
SizeCategoryLeftInclusive ==
    fn_output # None =>
        /\ (fn_input < 1024) <=> (Get(fn_output) = "< 1KB")
        /\ (1024 <= fn_input /\ fn_input < 10240) <=> (Get(fn_output) = "1KB - 10KB")
        /\ (10240 <= fn_input /\ fn_input < 102400) <=> (Get(fn_output) = "10KB - 100KB")
        /\ (102400 <= fn_input /\ fn_input < 1048576) <=> (Get(fn_output) = "100KB - 1MB")
        /\ (1048576 <= fn_input) <=> (Get(fn_output) = "> 1MB")

\* a size exactly on a boundary has been categorised
SizeOnBoundaryCategorised ==
    /\ fn_input = 1048576
    /\ fn_output = Some("> 1MB")

----------------------------------------------------------------------------
\* the file name without its trailing '.tar.gz' or its trailing '.zip'
ClaimedGroup(path) ==
    LET name == PathName(path)
    IN  IF endswith(name, DOT_TAR_GZ)
        THEN SubSeq(name, 1, Len(name) - Len(DOT_TAR_GZ))
        ELSE SubSeq(name, 1, Len(name) - Len(DOT_ZIP))

(* C4: the group of every record is the archive's file name without its
   trailing '.tar.gz' (tar-gzip) or its trailing '.zip' (zip). *)
GroupStripsTrailingSuffixes ==
    fn_output # None =>
        \A i \in DOMAIN Get(fn_output) : Get(fn_output)[i][1] = ClaimedGroup(fn_input.path)

----------------------------------------------------------------------------
(* Vocabulary of the properties of the pipeline *)

Count(seq, x) == Cardinality({ i \in DOMAIN seq : seq[i] = x })

\* the same rows, each as often, in any order
SameRows(s, t) ==
    /\ Len(s) = Len(t)
    /\ \A i \in DOMAIN s : Count(s, s[i]) = Count(t, s[i])

\* process_archives has returned its table
TableBuilt == df # None

Table == Get(df)

\* the members of the discovered archives, as (archive, member) index pairs
Entries ==
    UNION { { << a, m >> : m \in DOMAIN archives[a].body.members } :
            a \in DOMAIN archives }

EntryOf(e) == archives[e[1]].body.members[e[2]]

IsZip(path) == endswith(path, DOT_ZIP)

\* a regular file, not a directory: by type in a tar archive, by name in a zip
RegularFile(e) ==
    IF IsZip(archives[e[1]].path)
    THEN ~endswith(EntryOf(e).name, << "/" >>)
    ELSE EntryOf(e).type = "file"

\* the name ends, case-insensitively, with '.mid' or '.midi'
MidiNamed(e) ==
    \/ endswith(lower(EntryOf(e).name), << ".", "m", "i", "d" >>)
    \/ endswith(lower(EntryOf(e).name), << ".", "m", "i", "d", "i" >>)

\* the record of an entry: group of its archive, base name, bytes, byte count
RecordOf(e) ==
    [ group     |-> ClaimedGroup(archives[e[1]].path),
      file_name |-> basename(EntryOf(e).name),
      content   |-> EntryOf(e).content,
      file_size |-> EntryOf(e).content.len ]

HasRecord(e) == \E i \in DOMAIN Table : Table[i] = RecordOf(e)

----------------------------------------------------------------------------
(* C1, as stated: once process_archives has returned, the table holds a
   record for an entry of a discovered archive exactly if the entry is a
   regular file whose name ends case-insensitively with '.mid' or '.midi'. *)
RecordIffRegularMidiEntry ==
    TableBuilt =>
        \A e \in Entries : HasRecord(e) <=> (RegularFile(e) /\ MidiNamed(e))

\* the regular, MIDI-named entries whose content could be read
Extracted == { e \in Entries : RegularFile(e) /\ MidiNamed(e) /\ EntryOf(e).readable }

(* C1, amended: the table holds a record for an entry exactly if the entry is
   a regular file, MIDI-named, and its content could be read; and it holds
   one record per such entry and no other. *)
RecordIffReadableRegularMidiEntry ==
    TableBuilt =>
        /\ \A e \in Entries : HasRecord(e) <=> e \in Extracted
        /\ Len(Table) = Cardinality(Extracted)
        /\ \A i \in DOMAIN Table :
              Count(Table, Table[i]) = Cardinality({ e \in Extracted : RecordOf(e) = Table[i] })

\* a table holding the MIDI of one archive while a MIDI-named entry that
\* cannot be read, and a MIDI-named directory, are left out
MixedEntriesExtracted ==
    /\ TableBuilt
    /\ \E e \in Entries : HasRecord(e)
    /\ \E e \in Entries : RegularFile(e) /\ MidiNamed(e) /\ ~EntryOf(e).readable
    /\ \E e \in Entries : ~RegularFile(e) /\ MidiNamed(e)

----------------------------------------------------------------------------
\* the table built one archive after the other, in submission order
RECURSIVE InSubmissionOrder(_)
InSubmissionOrder(n) ==
    IF n = 0 THEN << >>
    ELSE InSubmissionOrder(n - 1)
         \o (IF archives[n].body.crash THEN << >>
             ELSE LET res == process_single_archive(archives[n])
                  IN  [ i \in 1..Len(res) |->
                          [ group |-> res[i][1], file_name |-> res[i][2],
                            content |-> res[i][3], file_size |-> res[i][4] ] ])

Reference == InSubmissionOrder(Len(archives))

(* C2: whatever the pool size and the order in which tasks finish and are
   collected, the table holds the same rows, each as often, as the table
   built one archive after the other in submission order, and count, total
   bytes, size-category counts and per-group counts are the same. *)
PoolSizeAndOrderIrrelevant ==
    TableBuilt =>
        /\ SameRows(Table, Reference)
        /\ Len(Table) = Len(Reference)
        /\ sum_file_size(Table) = sum_file_size(Reference)
        /\ group_by_size_category(Table) = group_by_size_category(Reference)
        /\ group_by_group(Table) = group_by_group(Reference)

\* two workers, three tasks, and a table in another order than submission
CollectedOutOfOrder ==
    /\ TableBuilt
    /\ max_workers = 2
    /\ Len(futures) = 3
    /\ Len(Table) >= 2
    /\ Table # Reference

----------------------------------------------------------------------------
\* the archive cannot be opened
Corrupted(a) == ~archives[a].body.openable

\* the table holds every record the archives yield
OthersKept ==
    \A a \in DOMAIN archives :
        ~archives[a].body.crash =>
            LET res == process_single_archive(archives[a])
            IN  \A i \in DOMAIN res : Count(Table, Row(res[i])) >= Count(res, res[i])

(* C3, as stated: with a corrupted archive among those discovered, the run
   ends with exit code 0 and the table holds every record of the others. *)
CorruptArchiveStillExitZero ==
    (pc = "done" /\ \E a \in DOMAIN archives : Corrupted(a)) =>
        /\ exit_code = Some(0)
        /\ TableBuilt /\ OthersKept

(* C3, amended: with a corrupted archive among those discovered, the table
   process_archives returns holds every record of the other archives; the run ends with exit code 0 if that table is not empty and
   the write succeeds, and with exit code 1 if the table is empty. *)
CorruptArchiveSkipped ==
    (TableBuilt /\ \E a \in DOMAIN archives : Corrupted(a)) =>
        /\ OthersKept
        /\ pc = "done" =>
              /\ (Len(Table) > 0 /\ uncaught = "none") => exit_code = Some(0)
              /\ Len(Table) = 0 => exit_code = Some(1)

\* a run that ended with 0 with a corrupted archive and another's record
CorruptArchiveBesideGoodOne ==
    /\ pc = "done"
    /\ exit_code = Some(0)
    /\ \E a \in DOMAIN archives : Corrupted(a)
    /\ Len(Table) >= 1

----------------------------------------------------------------------------
\* the archives of the catalog that the directory holds
DiscoveredPaths ==
    { tree[i].path : i \in DOMAIN tree } \cap { A_TAR_GZ, S_A_ZIP, C_ZIP }

NothingToSchedule ==
    input_dir = "missing" \/ input_dir = "file" \/ DiscoveredPaths = {}

NothingExtracted ==
    \A i \in DOMAIN futures :
        futures[i].outcome # None => Get(futures[i].outcome).results = << >>

(* C5: the run returns 1 and writes nothing when the input directory is
   missing, is not a directory, holds no archive, or yields no MIDI file;
   in the first three cases no task is ever submitted and no pool created. *)
ExitOneWithoutArtifact ==
    /\ NothingToSchedule => (futures = << >> /\ max_workers = 0)
    /\ (pc = "done" /\ NothingToSchedule) =>
          (exit_code = Some(1) /\ uncaught = "none" /\ artifact = None)
    /\ (pc = "done" /\ NothingExtracted) =>
          (exit_code = Some(1) /\ artifact = None)

\* a run that scheduled tasks, extracted nothing and returned 1
TasksRanNothingExtracted ==
    /\ pc = "done"
    /\ Len(futures) >= 2
    /\ TableBuilt
    /\ NothingExtracted
    /\ exit_code = Some(1)

----------------------------------------------------------------------------
(* C7, as stated: in a successful run the size histogram and the aggregate
   scalars are computed whether or not --no-plot is given. *)
StatsComputedRegardlessOfNoPlot ==
    (pc = "done" /\ exit_code = Some(0)) =>
        (size_stats # None /\ summary # None)

(* C7, amended: in a successful run the size histogram and the scalars
   total, mean, max and min are computed exactly when --no-plot is absent;
   the record count and the per-group counts are computed either way, and
   the written table is the same. *)
NoPlotSkipsSizeStatistics ==
    (pc = "done" /\ exit_code = Some(0)) =>
        /\ group_counts = Some(group_by_group(Table))
        /\ artifact # None
        /\ IF args.no_plot
           THEN size_stats = None /\ summary = None
           ELSE /\ size_stats = Some(group_by_size_category(Table))
                /\ summary # None
                /\ Get(summary).total_files = Len(Table)

\* a successful run under --no-plot
SuccessfulRunWithNoPlot ==
    /\ pc = "done"
    /\ exit_code = Some(0)
    /\ args.no_plot
    /\ artifact # None

----------------------------------------------------------------------------
\* the future's result() raises
Raised(i) == futures[i].outcome # None /\ ~Get(futures[i].outcome).ok

RECURSIVE ReturnedResults(_)
ReturnedResults(n) ==
    IF n = 0 THEN << >>
    ELSE ReturnedResults(n - 1)
         \o (IF Get(futures[n].outcome).ok THEN Get(futures[n].outcome).results
             ELSE << >>)

(* C8: a task that raised contributes no record and nothing else is lost:
   the table process_archives returns holds exactly the results of the
   futures that returned, and process_archives itself raises nothing. *)
TaskExceptionIsolated ==
    /\ pc = "as_completed" => uncaught = "none"
    /\ pc = "group_counts" => (TableBuilt /\ uncaught = "none")
    /\ (TableBuilt /\ \E i \in DOMAIN futures : Raised(i)) =>
          /\ collected = DOMAIN futures
          /\ SameRows(Table, Rows(ReturnedResults(Len(futures))))

\* a table with a record collected before and one after the raising task
RecordsAroundRaisingTask ==
    /\ TableBuilt
    /\ Len(futures) = 3
    /\ Raised(2)
    /\ Len(Table) = 2

----------------------------------------------------------------------------
\* the records of the archives the directory holds, each archive once
RECURSIVE RecordsOfTree(_)
RecordsOfTree(n) ==
    IF n = 0 THEN << >>
    ELSE RecordsOfTree(n - 1)
         \o (IF tree[n].path \in DiscoveredPaths /\ ~tree[n].body.crash
             THEN Rows(process_single_archive(tree[n]))
             ELSE << >>)

(* C9: no archive path is discovered twice, every discovered archive gets
   one task, and once all tasks are collected the table holds each archive's
   records once. *)
EachArchiveExactlyOnce ==
    /\ \A i, j \in DOMAIN archives : archives[i].path = archives[j].path => i = j
    /\ pc \notin { "main", "done" } =>
          { archives[i].path : i \in DOMAIN archives } = DiscoveredPaths
    /\ Len(futures) <= Len(archives)
    /\ \A i \in DOMAIN futures : i \in collected => futures[i].state = "finished"
    /\ pc \in { "as_completed", "group_counts" } => Len(futures) = Len(archives)
    /\ TableBuilt =>
          /\ collected = DOMAIN archives
          /\ SameRows(Table, RecordsOfTree(Len(tree)))

\* three archives, each with one record, all in the table
ThreeArchivesThreeRecords ==
    /\ TableBuilt
    /\ Len(archives) = 3
    /\ Len(Table) = 3

----------------------------------------------------------------------------
\* the members of the archive handed to the worker
WorkerMembers == fn_input.body.members

WorkerExtracts(m) ==
    /\ (IF IsZip(fn_input.path) THEN ~endswith(WorkerMembers[m].name, << "/" >>)
        ELSE WorkerMembers[m].type = "file")
    /\ \/ endswith(lower(WorkerMembers[m].name), << ".", "m", "i", "d" >>)
       \/ endswith(lower(WorkerMembers[m].name), << ".", "m", "i", "d", "i" >>)
    /\ WorkerMembers[m].readable

WorkerRecord(m) ==
    << << "a" >>, basename(WorkerMembers[m].name), WorkerMembers[m].content,
       WorkerMembers[m].content.len >>

(* C10: the worker returns one record (group, base name, content, byte
   count) for every MIDI-named regular file that can be read, also those
   that follow an entry whose read failed, and nothing else. *)
FailedReadSkipsOnlyThatEntry ==
    fn_output # None =>
        LET res  == Get(fn_output)
            good == { m \in DOMAIN WorkerMembers : WorkerExtracts(m) }
        IN  /\ Len(res) = Cardinality(good)
            /\ \A m \in good :
                  Count(res, WorkerRecord(m))
                      = Cardinality({ k \in good : WorkerRecord(k) = WorkerRecord(m) })

\* a tar archive whose first MIDI cannot be read and whose second is returned
ReadableAfterUnreadable ==
    /\ fn_output # None
    /\ fn_input.path = A_TAR_GZ
    /\ Len(WorkerMembers) >= 2
    /\ WorkerMembers[1].type = "file" /\ WorkerMembers[1].name = S_MID
    /\ ~WorkerMembers[1].readable
    /\ WorkerExtracts(2)
    /\ Len(Get(fn_output)) = 1

====
